---- MODULE Spec2Model ----
(***************************************************************************)
(* Model of the httpcache round-tripper (roundtripper.go).                 *)
(*                                                                         *)
(* Every caller goroutine is a process that hands requests to RoundTrip.   *)
(* The steps of one request that touch shared state (the cache directory,  *)
(* the underlying transport) are separate actions, so that concurrent      *)
(* requests interleave between os.Stat, os.ReadFile, the transport call,   *)
(* the open/truncate and the write of os.WriteFile, and os.Rename.         *)
(*                                                                         *)
(* Strings are sequences of tokens.  A URL string is a sequence whose      *)
(* leading scheme tokens each stand for "<scheme>:".  A header value is a  *)
(* sequence of numbers; the empty sequence is the empty string.            *)
(***************************************************************************)
EXTENDS Integers, Sequences, FiniteSets, TLC

\* ---------------------------------------------------------------- bounds
NumProcs == 2
MaxRequests == 3
\* modification times are kept in ticks finer than the one-second
\* resolution of the HTTP date format
TicksPerSecond == 2

Procs == 1..NumProcs

\* ------------------------------------------------------ program constants
StatusOK == 200
StatusMultipleChoices == 300
StatusNotModified == 304
StatusInternalServerError == 500

\* ------------------------------------------------------------------ URLs
SchemeNames == {"cache", "cachez", "http", "https"}
SlashTokens == {"//a/x", "//b/y"}
BadEscape == "%zz"
NoURL == [Scheme |-> "", Rest |-> <<>>]

\* url.URL.String(): "<scheme>:" followed by the opaque or hierarchical part
URLString(u) == IF u.Scheme # "" THEN <<u.Scheme>> \o u.Rest ELSE u.Rest

\* url.Parse: split off a leading scheme; the remainder is kept verbatim as
\* Opaque when a scheme is present and the remainder does not start with
\* "/", otherwise it is parsed as authority and path, where an invalid
\* percent-escape is an error.
ParseURL(raw) ==
    LET hasScheme == raw # <<>> /\ Head(raw) \in SchemeNames
        s == IF hasScheme THEN Head(raw) ELSE ""
        r == IF hasScheme THEN Tail(raw) ELSE raw
        opaque == s # "" /\ r # <<>> /\ r[1] \notin SlashTokens
    IN  [ok  |-> opaque \/ \A i \in 1..Len(r) : r[i] # BadEscape,
         url |-> [Scheme |-> s, Rest |-> r]]

\* errors are sequences of strings; nil is the empty sequence
Nil == <<>>
ErrPrefix == <<"url does not start with prefix">>
ErrMissing == <<"missing downstream URL after prefix">>
ErrParse == <<"parse downstream URL">>
ErrNoScheme == <<"downstream URL must include scheme">>
ErrIO == <<"storage error">>
ErrNotExist == <<"file does not exist">>
ErrTransport == <<"transport error">>
ErrBodyRead == <<"body read error">>
ErrCacheMiss(u) == <<"cache miss for">> \o URLString(u)

\* unwrapScheme without the check that the remainder has its own scheme
unwrapSchemeAcceptsRelative(u, scheme) ==
    LET raw == URLString(u)
        hasPrefix == raw # <<>> /\ Head(raw) = scheme
        targetRaw == IF hasPrefix THEN Tail(raw) ELSE raw
        parsed == ParseURL(targetRaw)
    IN  IF ~hasPrefix THEN [err |-> ErrPrefix, url |-> NoURL]
        ELSE IF targetRaw = <<>> THEN [err |-> ErrMissing, url |-> NoURL]
        ELSE IF ~parsed.ok THEN [err |-> ErrParse, url |-> NoURL]
        ELSE [err |-> Nil, url |-> parsed.url]

unwrapScheme(u, scheme) ==
    LET raw == URLString(u)
        hasPrefix == raw # <<>> /\ Head(raw) = scheme
        targetRaw == IF hasPrefix THEN Tail(raw) ELSE raw
        parsed == ParseURL(targetRaw)
    IN  IF ~hasPrefix THEN [err |-> ErrPrefix, url |-> NoURL]
        ELSE IF targetRaw = <<>> THEN [err |-> ErrMissing, url |-> NoURL]
        ELSE IF ~parsed.ok THEN [err |-> ErrParse, url |-> NoURL]
        ELSE IF parsed.url.Scheme = "" THEN [err |-> ErrNoScheme, url |-> NoURL]
        ELSE [err |-> Nil, url |-> parsed.url]

\* the SHA-256 digest is injective on the URLs of the model: the digest of
\* a string is represented by the string itself
cachePathForURL(u) ==
    LET keyURL == IF u.Scheme \in {"cache", "cachez"}
                  THEN [u EXCEPT !.Scheme = "http"] ELSE u
    IN  <<"cacheDir">> \o URLString(keyURL)

tmpPathOf(path) == path \o <<".tmp">>

\* --------------------------------------------------------------- headers
\* the values of the request's If-Modified-Since header: <<>> when the
\* header is absent, else the list of its values
HeaderGet(h) == IF h = <<>> THEN <<>> ELSE h[1]
HeaderSet(h, v) == <<v>>

\* ModTime().UTC().Format(http.TimeFormat): the date string of the second
\* the tick falls in
FormatHTTPTime(t) == <<t \div TicksPerSecond>>

\* ---------------------------------------------------------------- inputs
URLCacheA == [Scheme |-> "cache", Rest |-> <<"https", "//a/x">>]
URLCachezA == [Scheme |-> "cachez", Rest |-> <<"https", "//a/x">>]
URLCacheB == [Scheme |-> "cache", Rest |-> <<"https", "//b/y">>]
URLPlainA == [Scheme |-> "https", Rest |-> <<"//a/x">>]
URLCacheNoScheme == [Scheme |-> "cache", Rest |-> <<"//a/x">>]
URLCacheEmpty == [Scheme |-> "cache", Rest |-> <<>>]
URLCachezBad == [Scheme |-> "cachez", Rest |-> <<BadEscape>>]

HeaderAbsent == <<>>
HeaderEmptyValue == << <<>> >>
HeaderCallerDate == << <<9, 9>> >>

Requests ==
    {[URL |-> URLCacheA, Header |-> h] :
        h \in {HeaderAbsent, HeaderEmptyValue, HeaderCallerDate}}
    \cup {[URL |-> u, Header |-> HeaderAbsent] :
        u \in {URLCachezA, URLCacheB, URLCacheNoScheme, URLCacheEmpty,
               URLCachezBad}}
    \cup {[URL |-> URLPlainA, Header |-> HeaderCallerDate]}

NoRequest == [URL |-> NoURL, Header |-> <<>>]

Bodies == {<<1>>, <<2, 2>>}
UpstreamOtherBody == <<7>>
Statuses == {StatusOK, StatusNotModified, StatusInternalServerError}

\* ------------------------------------------------------------- responses
NilResp == [nil |-> TRUE, status |-> 0, body |-> <<>>, hit |-> FALSE, len |-> 0]

cachedResponse(body) ==
    [nil |-> FALSE, status |-> StatusOK, body |-> body, hit |-> TRUE,
     len |-> Len(body)]

\* a response of the underlying transport; its ContentLength is unknown (-1)
UpstreamResp(status, body) ==
    [nil |-> FALSE, status |-> status, body |-> body, hit |-> FALSE, len |-> -1]

NoResult == [resp |-> NilResp, err |-> Nil]
NoOutcome == [resp |-> NilResp, err |-> Nil, readErr |-> FALSE]

\* what the transport can answer: an error, or a response whose body can
\* be read in full or fails while being read
Outcomes ==
    {[resp |-> NilResp, err |-> ErrTransport, readErr |-> FALSE]}
    \cup {[resp |-> UpstreamResp(StatusOK, b), err |-> Nil, readErr |-> e] :
            b \in Bodies, e \in BOOLEAN}
    \cup {[resp |-> UpstreamResp(s, UpstreamOtherBody), err |-> Nil, readErr |-> FALSE] :
            s \in Statuses \ {StatusOK}}

\* ------------------------------------------------------------ file system
ValidTargets ==
    {unwrapScheme(r.URL, r.URL.Scheme).url :
        r \in {q \in Requests : /\ q.URL.Scheme \in {"cache", "cachez"}
                                /\ unwrapScheme(q.URL, q.URL.Scheme).err = Nil}}
CachePaths == {cachePathForURL(d) : d \in ValidTargets}
AllPaths == CachePaths \cup {tmpPathOf(path) : path \in CachePaths}
MaxIno == 2 * Cardinality(CachePaths) + NumProcs
Inodes == 1..MaxIno
BlankInode == [data |-> <<>>, mtime |-> 0]

VARIABLES
    dir,      \* the cache directory: path -> inode number, 0 when absent
    ino,      \* inode number -> content and modification time
    clock,    \* the file system's clock, in ticks
    started,  \* number of requests handed to RoundTrip so far
    written,  \* cache path -> the bodies writeCacheFile was called with
    pc,       \* process -> position in RoundTrip
    req,      \* process -> the request being handled
    down,     \* process -> downstreamURL
    cache,    \* process -> hasCache, cachedBody, cachedInfo.ModTime()
    upReq,    \* process -> the request handed to the transport
    upOut,    \* process -> what the transport answered
    fd,       \* process -> inode os.WriteFile holds open, 0 when none
    werr,     \* process -> the result of writeCacheFile: "none", "ok", "err"
    last,     \* cache path -> the latest validating fetch, when it ran alone
    recent,   \* cache path -> the latest body stored, in a sequential run
    res,      \* process -> what RoundTrip returned
    calls,    \* process -> transport calls made for the current request
    io        \* process -> storage reads and writes of the current request

vars == <<dir, ino, clock, started, written, pc, req, down, cache, upReq,
          upOut, fd, werr, last, recent, res, calls, io>>

\* cachedBody, cachedInfo and cacheErr before readCacheFile has run
NoCache == [has |-> FALSE, body |-> <<>>, mtime |-> 0, err |-> Nil]

\* last[path].st is "running" while one validating fetch for the path runs
\* and no other has run beside it, "dirty" once two have overlapped,
\* "fresh" when a fetch that ran alone has returned a fresh body (with the
\* body, whether its read found no entry, and writeCacheFile's result),
\* and "idle" otherwise
LastIs(st) == [st |-> st, body |-> <<>>, miss |-> FALSE, wrote |-> "none"]
NoIO == [reads |-> 0, writes |-> 0]

\* recent[path].seq holds as long as the validating fetches of the path
\* have run one after the other and every writeCacheFile of theirs has
\* succeeded; body is then the body the latest of them stored, if has,
\* and got the body of the latest 2xx response the transport gave one of
\* them, read in full or not (empty when there was none)
NoneStored == [seq |-> TRUE, has |-> FALSE, body |-> <<>>, got |-> <<>>]
NotSequential == [seq |-> FALSE, has |-> FALSE, body |-> <<>>, got |-> <<>>]

Init ==
    /\ dir = [path \in AllPaths |-> 0]
    /\ ino = [i \in Inodes |-> BlankInode]
    /\ clock = 0
    /\ started = 0
    /\ written = [path \in CachePaths |-> {}]
    /\ pc = [p \in Procs |-> "idle"]
    /\ req = [p \in Procs |-> NoRequest]
    /\ down = [p \in Procs |-> NoURL]
    /\ cache = [p \in Procs |-> NoCache]
    /\ upReq = [p \in Procs |-> NoRequest]
    /\ upOut = [p \in Procs |-> NoOutcome]
    /\ fd = [p \in Procs |-> 0]
    /\ werr = [p \in Procs |-> "none"]
    /\ last = [path \in CachePaths |-> LastIs("idle")]
    /\ recent = [path \in CachePaths |-> NoneStored]
    /\ res = [p \in Procs |-> NoResult]
    /\ calls = [p \in Procs |-> 0]
    /\ io = [p \in Procs |-> NoIO]

\* -------------------------------------------------------------- helpers
\* Dispatch with every scheme but cachez handled as cache
DispatchDefaultValidates(scheme) ==
    IF scheme = "cachez" THEN "cacheOnly" ELSE "validate"

\* RoundTrip's switch on req.URL.Scheme
Dispatch(scheme) ==
    CASE scheme = "cache" -> "validate"
      [] scheme = "cachez" -> "cacheOnly"
      [] OTHER -> "pass"

\* the prefix each handler passes to unwrapScheme
PrefixOf(handler) == IF handler = "validate" THEN "cache" ELSE "cachez"

Handler(p) == Dispatch(req[p].URL.Scheme)
Active(p) == pc[p] \notin {"idle", "done"}
PathOf(p) == cachePathForURL(down[p])

\* UpstreamHeader that overrides a header the caller set
UpstreamHeaderOverrides(hasCache, h, mtime) ==
    IF hasCache THEN HeaderSet(h, FormatHTTPTime(mtime)) ELSE h

\* the conditional header of the upstream request
UpstreamHeader(hasCache, h, mtime) ==
    IF hasCache /\ HeaderGet(h) = <<>>
    THEN HeaderSet(h, FormatHTTPTime(mtime))
    ELSE h

\* req.Clone, retargeted at the downstream URL
UpstreamRequest(r, u, c) ==
    [URL |-> u, Header |-> UpstreamHeader(c.has, r.Header, c.mtime)]

IsSuccess(status) == status >= StatusOK /\ status < StatusMultipleChoices

\* the upstream response with the buffered body
FreshResponse(resp) == [resp EXCEPT !.len = Len(resp.body)]

\* Classify with a 304 returned as it came
ClassifyNotModifiedUpstream(c, out) ==
    LET cached == [resp |-> cachedResponse(c.body), err |-> Nil, store |-> FALSE]
    IN  IF out.err # Nil
        THEN IF c.has THEN cached
             ELSE [resp |-> NilResp, err |-> out.err, store |-> FALSE]
        ELSE IF out.resp.status = StatusNotModified
        THEN [resp |-> out.resp, err |-> Nil, store |-> FALSE]
        ELSE IF IsSuccess(out.resp.status)
        THEN IF out.readErr
             THEN IF c.has THEN cached
                  ELSE [resp |-> NilResp, err |-> ErrBodyRead, store |-> FALSE]
             ELSE [resp |-> FreshResponse(out.resp), err |-> Nil, store |-> TRUE]
        ELSE IF c.has THEN cached
        ELSE [resp |-> out.resp, err |-> Nil, store |-> FALSE]

\* Classify with a transport error always returned to the caller
ClassifyErrorPropagates(c, out) ==
    LET cached == [resp |-> cachedResponse(c.body), err |-> Nil, store |-> FALSE]
    IN  IF out.err # Nil
        THEN [resp |-> NilResp, err |-> out.err, store |-> FALSE]
        ELSE IF c.has /\ out.resp.status = StatusNotModified THEN cached
        ELSE IF IsSuccess(out.resp.status)
        THEN IF out.readErr
             THEN IF c.has THEN cached
                  ELSE [resp |-> NilResp, err |-> ErrBodyRead, store |-> FALSE]
             ELSE [resp |-> FreshResponse(out.resp), err |-> Nil, store |-> TRUE]
        ELSE IF c.has THEN cached
        ELSE [resp |-> out.resp, err |-> Nil, store |-> FALSE]

\* Classify with a status outside 2xx always returned as it came, a 304
\* matched by an entry excepted
ClassifyOtherStatusUpstream(c, out) ==
    LET cached == [resp |-> cachedResponse(c.body), err |-> Nil, store |-> FALSE]
    IN  IF out.err # Nil
        THEN IF c.has THEN cached
             ELSE [resp |-> NilResp, err |-> out.err, store |-> FALSE]
        ELSE IF c.has /\ out.resp.status = StatusNotModified THEN cached
        ELSE IF IsSuccess(out.resp.status)
        THEN IF out.readErr
             THEN IF c.has THEN cached
                  ELSE [resp |-> NilResp, err |-> ErrBodyRead, store |-> FALSE]
             ELSE [resp |-> FreshResponse(out.resp), err |-> Nil, store |-> TRUE]
        ELSE [resp |-> out.resp, err |-> Nil, store |-> FALSE]

\* Classify with a transport error and no entry giving neither a response
\* nor an error
ClassifyDropsError(c, out) ==
    LET cached == [resp |-> cachedResponse(c.body), err |-> Nil, store |-> FALSE]
    IN  IF out.err # Nil
        THEN IF c.has THEN cached
             ELSE [resp |-> NilResp, err |-> Nil, store |-> FALSE]
        ELSE IF c.has /\ out.resp.status = StatusNotModified THEN cached
        ELSE IF IsSuccess(out.resp.status)
        THEN IF out.readErr
             THEN IF c.has THEN cached
                  ELSE [resp |-> NilResp, err |-> ErrBodyRead, store |-> FALSE]
             ELSE [resp |-> FreshResponse(out.resp), err |-> Nil, store |-> TRUE]
        ELSE IF c.has THEN cached
        ELSE [resp |-> out.resp, err |-> Nil, store |-> FALSE]

\* Classify with a body-read failure always returned to the caller
ClassifyReadErrorPropagates(c, out) ==
    LET cached == [resp |-> cachedResponse(c.body), err |-> Nil, store |-> FALSE]
    IN  IF out.err # Nil
        THEN IF c.has THEN cached
             ELSE [resp |-> NilResp, err |-> out.err, store |-> FALSE]
        ELSE IF c.has /\ out.resp.status = StatusNotModified THEN cached
        ELSE IF IsSuccess(out.resp.status)
        THEN IF out.readErr
             THEN [resp |-> NilResp, err |-> ErrBodyRead, store |-> FALSE]
             ELSE [resp |-> FreshResponse(out.resp), err |-> Nil, store |-> TRUE]
        ELSE IF c.has THEN cached
        ELSE [resp |-> out.resp, err |-> Nil, store |-> FALSE]

\* Classify with the body of a status outside 2xx stored when no entry was
\* found
ClassifyStoresAnyStatus(c, out) ==
    LET cached == [resp |-> cachedResponse(c.body), err |-> Nil, store |-> FALSE]
    IN  IF out.err # Nil
        THEN IF c.has THEN cached
             ELSE [resp |-> NilResp, err |-> out.err, store |-> FALSE]
        ELSE IF c.has /\ out.resp.status = StatusNotModified THEN cached
        ELSE IF IsSuccess(out.resp.status)
        THEN IF out.readErr
             THEN IF c.has THEN cached
                  ELSE [resp |-> NilResp, err |-> ErrBodyRead, store |-> FALSE]
             ELSE [resp |-> FreshResponse(out.resp), err |-> Nil, store |-> TRUE]
        ELSE IF c.has THEN cached
        ELSE [resp |-> FreshResponse(out.resp), err |-> Nil, store |-> TRUE]

\* what roundTripWithValidation does with the transport's answer; store
\* says that the buffered body goes to writeCacheFile before the return
Classify(c, out) ==
    LET cached == [resp |-> cachedResponse(c.body), err |-> Nil, store |-> FALSE]
    IN  IF out.err # Nil
        THEN IF c.has THEN cached
             ELSE [resp |-> NilResp, err |-> out.err, store |-> FALSE]
        ELSE IF c.has /\ out.resp.status = StatusNotModified THEN cached
        ELSE IF IsSuccess(out.resp.status)
        THEN IF out.readErr
             THEN IF c.has THEN cached
                  ELSE [resp |-> NilResp, err |-> ErrBodyRead, store |-> FALSE]
             ELSE [resp |-> FreshResponse(out.resp), err |-> Nil, store |-> TRUE]
        ELSE IF c.has THEN cached
        ELSE [resp |-> out.resp, err |-> Nil, store |-> FALSE]

\* CacheOnly with a miss answered by an empty cached response
CacheOnlyEmptyOnMiss(c, u) ==
    IF c.err # Nil /\ c.err # ErrNotExist
    THEN [resp |-> NilResp, err |-> c.err]
    ELSE [resp |-> cachedResponse(c.body), err |-> Nil]

\* what roundTripCacheOnly returns for the outcome of readCacheFile
CacheOnly(c, u) ==
    IF c.err # Nil
    THEN IF c.err = ErrNotExist
         THEN [resp |-> NilResp, err |-> ErrCacheMiss(u)]
         ELSE [resp |-> NilResp, err |-> c.err]
    ELSE [resp |-> cachedResponse(c.body), err |-> Nil]

\* an inode nobody names and nobody holds open is gone
Referenced(d, f) == {d[path] : path \in AllPaths} \cup {f[p] : p \in Procs}
Collect(i2, d, f) ==
    [i \in Inodes |-> IF i \in Referenced(d, f) THEN i2[i] ELSE BlankInode]
FreeInode == CHOOSE i \in Inodes :
    /\ i \notin Referenced(dir, fd)
    /\ \A j \in Inodes : j \notin Referenced(dir, fd) => i <= j

\* Overlay with a short write: the last byte of data is not written
OverlayShort(data, old) ==
    SubSeq(data, 1, Len(data) - 1) \o SubSeq(old, Len(data), Len(old))

\* a write of data at offset 0 of a file that holds old
Overlay(data, old) == data \o SubSeq(old, Len(data) + 1, Len(old))

\* the record of the validating fetches of a path, when p returns; w is
\* writeCacheFile's result, "none" when it was not called
LastAfterReturn(p, w) ==
    IF Handler(p) = "validate" /\ down[p] # NoURL /\ last[PathOf(p)].st = "running"
    THEN [last EXCEPT ![PathOf(p)] =
            IF w = "none" THEN LastIs("idle")
            ELSE [st |-> "fresh", body |-> upOut[p].resp.body,
                  miss |-> cache[p].err = ErrNotExist, wrote |-> w]]
    ELSE last

\* the latest body stored for a path, when p returns; w is writeCacheFile's
\* result, "none" when it was not called
RecentAfterReturn(p, w) ==
    IF Handler(p) = "validate" /\ down[p] # NoURL /\ w # "none"
    THEN [recent EXCEPT ![PathOf(p)] =
            IF w = "ok" /\ @.seq
            THEN [seq |-> TRUE, has |-> TRUE, body |-> upOut[p].resp.body,
                  got |-> upOut[p].resp.body]
            ELSE NotSequential]
    ELSE IF /\ Handler(p) = "validate" /\ pc[p] = "call"
            /\ recent[PathOf(p)].seq
            /\ upOut'[p].err = Nil /\ IsSuccess(upOut'[p].resp.status)
    THEN [recent EXCEPT ![PathOf(p)].got = upOut'[p].resp.body]
    ELSE recent

\* the same, when a validating fetch of path begins in p
RecentAfterBegin(p, path) ==
    IF \E q \in Procs \ {p} :
        Active(q) /\ Handler(q) = "validate" /\ PathOf(q) = path
    THEN [recent EXCEPT ![path] = NotSequential]
    ELSE recent

Return(p, result, w) ==
    /\ recent' = RecentAfterReturn(p, w)
    /\ pc' = [pc EXCEPT ![p] = "done"]
    /\ res' = [res EXCEPT ![p] = result]
    /\ werr' = [werr EXCEPT ![p] = w]
    /\ last' = LastAfterReturn(p, w)

\* AfterRead with a cache-only miss going on to the transport
AfterReadFallsThrough(p, c) ==
    /\ cache' = [cache EXCEPT ![p] = c]
    /\ IF c.err # Nil /\ c.err # ErrNotExist
       THEN /\ Return(p, [resp |-> NilResp, err |-> c.err], "none")
            /\ UNCHANGED upReq
       ELSE IF Handler(p) = "cacheOnly" /\ c.err = Nil
       THEN /\ Return(p, CacheOnly(c, down[p]), "none")
            /\ UNCHANGED upReq
       ELSE /\ pc' = [pc EXCEPT ![p] = "call"]
            /\ upReq' = [upReq EXCEPT ![p] = UpstreamRequest(req[p], down[p], c)]
            /\ UNCHANGED <<res, werr, last, recent>>

\* AfterRead with a storage error treated as a missing entry by the
\* validating fetch
AfterReadMasksError(p, c) ==
    /\ cache' = [cache EXCEPT ![p] = c]
    /\ IF Handler(p) = "cacheOnly"
       THEN /\ Return(p, CacheOnly(c, down[p]), "none")
            /\ UNCHANGED upReq
       ELSE /\ pc' = [pc EXCEPT ![p] = "call"]
            /\ upReq' = [upReq EXCEPT ![p] = UpstreamRequest(req[p], down[p], c)]
            /\ UNCHANGED <<res, werr, last, recent>>

\* how a handler goes on once readCacheFile has returned c
AfterRead(p, c) ==
    /\ cache' = [cache EXCEPT ![p] = c]
    /\ IF Handler(p) = "cacheOnly"
       THEN /\ Return(p, CacheOnly(c, down[p]), "none")
            /\ UNCHANGED upReq
       ELSE IF c.err # Nil /\ c.err # ErrNotExist
       THEN /\ Return(p, [resp |-> NilResp, err |-> c.err], "none")
            /\ UNCHANGED upReq
       ELSE /\ pc' = [pc EXCEPT ![p] = "call"]
            /\ upReq' = [upReq EXCEPT ![p] = UpstreamRequest(req[p], down[p], c)]
            /\ UNCHANGED <<res, werr, last, recent>>

\* ---------------------------------------------------------------- actions
\* RoundTrip: dispatch on the scheme, then unwrapScheme for the two cache
\* schemes; any other request goes to the underlying transport as it is
RoundTrip(p, r) ==
    /\ pc[p] \in {"idle", "done"}
    /\ started < MaxRequests
    /\ started' = started + 1
    /\ req' = [req EXCEPT ![p] = r]
    /\ cache' = [cache EXCEPT ![p] = NoCache]
    /\ upOut' = [upOut EXCEPT ![p] = NoOutcome]
    /\ werr' = [werr EXCEPT ![p] = "none"]
    /\ calls' = [calls EXCEPT ![p] = 0]
    /\ io' = [io EXCEPT ![p] = NoIO]
    /\ LET h == Dispatch(r.URL.Scheme)
           un == unwrapScheme(r.URL, PrefixOf(h))
           path == cachePathForURL(un.url)
       IN  IF h = "pass"
           THEN /\ down' = [down EXCEPT ![p] = NoURL]
                /\ upReq' = [upReq EXCEPT ![p] = r]
                /\ pc' = [pc EXCEPT ![p] = "call"]
                /\ res' = [res EXCEPT ![p] = NoResult]
                /\ UNCHANGED <<last, recent>>
           ELSE /\ down' = [down EXCEPT ![p] = un.url]
                /\ upReq' = [upReq EXCEPT ![p] = NoRequest]
                /\ IF un.err # Nil
                   THEN /\ pc' = [pc EXCEPT ![p] = "done"]
                        /\ res' = [res EXCEPT ![p] = [resp |-> NilResp, err |-> un.err]]
                        /\ UNCHANGED <<last, recent>>
                   ELSE /\ pc' = [pc EXCEPT ![p] = "stat"]
                        /\ res' = [res EXCEPT ![p] = NoResult]
                        /\ last' = IF h # "validate" THEN last
                                   ELSE [last EXCEPT ![path] =
                                     IF \E q \in Procs \ {p} :
                                          /\ Active(q)
                                          /\ Handler(q) = "validate"
                                          /\ PathOf(q) = path
                                     THEN LastIs("dirty") ELSE LastIs("running")]
                        /\ recent' = IF h # "validate" THEN recent
                                     ELSE RecentAfterBegin(p, path)
    /\ UNCHANGED <<dir, ino, clock, written, fd>>

\* readCacheFile, os.Stat: a storage error, not found, or the file's info
Stat(p, F) ==
    /\ pc[p] = "stat"
    /\ io' = [io EXCEPT ![p].reads = @ + 1]
    /\ \E fail \in F :
        IF fail
        THEN AfterRead(p, [NoCache EXCEPT !.err = ErrIO])
        ELSE IF dir[PathOf(p)] = 0
        THEN AfterRead(p, [NoCache EXCEPT !.err = ErrNotExist])
        ELSE /\ cache' = [cache EXCEPT ![p].mtime = ino[dir[PathOf(p)]].mtime]
             /\ pc' = [pc EXCEPT ![p] = "read"]
             /\ UNCHANGED <<upReq, res, werr, last, recent>>
    /\ UNCHANGED <<dir, ino, clock, started, written, req, down, upOut, fd,
                   calls>>

\* readCacheFile, os.ReadFile: a storage error, or the bytes the path names
\* now, returned with the info os.Stat gave
ReadFile(p, F) ==
    /\ pc[p] = "read"
    /\ io' = [io EXCEPT ![p].reads = @ + 1]
    /\ \E fail \in F :
        IF fail
        THEN AfterRead(p, [NoCache EXCEPT !.err = ErrIO])
        ELSE IF dir[PathOf(p)] = 0
        THEN AfterRead(p, [NoCache EXCEPT !.err = ErrNotExist])
        ELSE AfterRead(p, [has |-> TRUE, body |-> ino[dir[PathOf(p)]].data,
                           mtime |-> cache[p].mtime, err |-> Nil])
    /\ UNCHANGED <<dir, ino, clock, started, written, req, down, upOut, fd,
                   calls>>

\* c.original.RoundTrip and, for a validating fetch, the classification of
\* its answer, io.ReadAll of the body included
OriginalRoundTrip(p) ==
    /\ pc[p] = "call"
    /\ calls' = [calls EXCEPT ![p] = @ + 1]
    /\ \E out \in Outcomes :
        /\ upOut' = [upOut EXCEPT ![p] = out]
        /\ IF Handler(p) = "validate"
           THEN LET k == Classify(cache[p], out)
                IN  IF k.store
                    THEN /\ pc' = [pc EXCEPT ![p] = "open"]
                         /\ UNCHANGED <<res, werr, last, recent>>
                    ELSE Return(p, [resp |-> k.resp, err |-> k.err], "none")
           ELSE Return(p, [resp |-> out.resp, err |-> out.err], "none")
    /\ UNCHANGED <<dir, ino, clock, started, written, req, down, cache, upReq,
                   fd, io>>

\* ReturnFresh with the error of writeCacheFile returned to the caller
ReturnFreshSurfacesError(p, w) ==
    IF w = "err"
    THEN Return(p, [resp |-> NilResp, err |-> ErrIO], w)
    ELSE Return(p, [resp |-> FreshResponse(upOut[p].resp), err |-> Nil], w)

\* what roundTripWithValidation returns after writeCacheFile, whose result
\* w it drops
ReturnFresh(p, w) ==
    Return(p, [resp |-> FreshResponse(upOut[p].resp), err |-> Nil], w)

\* writeCacheFile, os.WriteFile's open of path+".tmp" with O_CREATE|O_TRUNC
WriteFileOpen(p, F) ==
    /\ pc[p] = "open"
    /\ io' = [io EXCEPT ![p].writes = @ + 1]
    /\ written' = [written EXCEPT ![PathOf(p)] = @ \cup {upOut[p].resp.body}]
    /\ LET tmp == tmpPathOf(PathOf(p))
           i == IF dir[tmp] = 0 THEN FreeInode ELSE dir[tmp]
       IN  \E fail \in F :
           IF fail
           THEN /\ ReturnFresh(p, "err")
                /\ UNCHANGED <<dir, ino, clock, fd>>
           ELSE /\ dir' = [dir EXCEPT ![tmp] = i]
                /\ ino' = [ino EXCEPT ![i] = [data |-> <<>>, mtime |-> clock + 1]]
                /\ clock' = clock + 1
                /\ fd' = [fd EXCEPT ![p] = i]
                /\ pc' = [pc EXCEPT ![p] = "write"]
                /\ UNCHANGED <<res, werr, last, recent>>
    /\ UNCHANGED <<started, req, down, cache, upReq, upOut, calls>>

\* writeCacheFile, os.WriteFile's write at offset 0 of the open file and
\* its close
WriteFileWrite(p, F) ==
    /\ pc[p] = "write"
    /\ fd' = [fd EXCEPT ![p] = 0]
    /\ \E fail \in F :
       IF fail
       THEN /\ ReturnFresh(p, "err")
            /\ ino' = Collect(ino, dir, fd')
            /\ UNCHANGED clock
       ELSE /\ ino' = Collect([ino EXCEPT ![fd[p]] =
                        [data |-> Overlay(upOut[p].resp.body, ino[fd[p]].data),
                         mtime |-> clock + 1]], dir, fd')
            /\ clock' = clock + 1
            /\ pc' = [pc EXCEPT ![p] = "rename"]
            /\ UNCHANGED <<res, werr, last, recent>>
    /\ UNCHANGED <<dir, started, written, req, down, cache, upReq, upOut,
                   calls, io>>

\* Renamed with an existing destination removed and not replaced
RenamedUnlinksTarget(d, from, to) ==
    IF d[to] # 0 THEN [d EXCEPT ![to] = 0, ![from] = 0]
    ELSE [d EXCEPT ![to] = d[from], ![from] = 0]

\* Renamed with an existing destination left as it is
RenamedKeepsTarget(d, from, to) ==
    IF d[to] # 0 THEN [d EXCEPT ![from] = 0]
    ELSE [d EXCEPT ![to] = d[from], ![from] = 0]

\* the directory after os.Rename: the destination names the file the
\* source named, replacing what it named before, and the source is gone
Renamed(d, from, to) == [d EXCEPT ![to] = d[from], ![from] = 0]

\* writeCacheFile, os.Rename of path+".tmp" to path, and the return of the
\* fresh response
Rename(p, F) ==
    /\ pc[p] = "rename"
    /\ LET path == PathOf(p)
           tmp == tmpPathOf(path)
       IN  \E fail \in F :
           IF fail \/ dir[tmp] = 0
           THEN /\ ReturnFresh(p, "err")
                /\ UNCHANGED <<dir, ino>>
           ELSE /\ dir' = Renamed(dir, tmp, path)
                /\ ino' = Collect(ino, dir', fd)
                /\ ReturnFresh(p, "ok")
    /\ UNCHANGED <<clock, started, written, req, down, cache, upReq, upOut,
                   fd, calls, io>>

\* storage operations may fail, or never fail
Faulty == BOOLEAN
Reliable == {FALSE}

Step(F) ==
    \E p \in Procs :
        \/ \E r \in Requests : RoundTrip(p, r)
        \/ Stat(p, F)
        \/ ReadFile(p, F)
        \/ OriginalRoundTrip(p)
        \/ WriteFileOpen(p, F)
        \/ WriteFileWrite(p, F)
        \/ Rename(p, F)

Next == Step(Faulty)
NextReliable == Step(Reliable)

\* any number of callers, storage operations may fail
Spec == Init /\ [][Next]_vars
\* any number of callers, storage operations never fail
SpecReliable == Init /\ [][NextReliable]_vars

\* ----------------------------------------------------------------- claims
\* the synthesized cached response for bytes b
HitResponse(b) ==
    [nil |-> FALSE, status |-> 200, body |-> b, hit |-> TRUE, len |-> Len(b)]

IsCache(p) == req[p].URL.Scheme = "cache"
IsCachez(p) == req[p].URL.Scheme = "cachez"
IsOther(p) == req[p] # NoRequest /\ ~IsCache(p) /\ ~IsCachez(p)

\* C1: a cache-only fetch (scheme cachez) never invokes the transport:
\* whatever its outcome (hit, miss, storage error, malformed URL), the
\* request has made no transport call and is never about to make one.
C1_CacheOnlyNeverCallsTransport ==
    \A p \in Procs : IsCachez(p) => calls[p] = 0 /\ pc[p] # "call"

\* a cache-only fetch has returned a hit
C1_Witness ==
    \E p \in Procs :
        /\ IsCachez(p) /\ pc[p] = "done"
        /\ res[p].err = Nil /\ res[p].resp.hit

\* C2: every cache read that finds an entry returns the complete body of
\* one single write to that entry, under any interleaving of validating
\* fetches and reads.
C2_ReadsAreWholeWrites ==
    \A p \in Procs : cache[p].has => cache[p].body \in written[PathOf(p)]

\* p's cache-only fetch returns in this step
CachezReturns(p) ==
    IsCachez(p) /\ pc[p] \in {"stat", "read"} /\ pc'[p] = "done"

\* the latest validating fetch of p's destination ran with no other
\* validating fetch of that destination beside it, found no entry, has
\* returned a fresh body, and none has started since
AfterLoneFreshFetch(p) ==
    last[PathOf(p)].st = "fresh" /\ last[PathOf(p)].miss

FreshReturns(p) ==
    IsCache(p) /\ pc[p] \in {"open", "write", "rename"} /\ pc'[p] = "done"

\* no fetch other than p's is running for p's destination
NoOtherFetchRunning(p) ==
    \A q \in Procs \ {p} :
        ~(Active(q) /\ down[q] # NoURL /\ PathOf(q) = PathOf(p))

\* C4: when a validating fetch that received a 2xx response and buffered
\* its body returns, with no other fetch for the destination running, the
\* cache entry of the destination equals the fresh body.
C4_FreshBodyOverwritesCache ==
    [][\A p \in Procs :
        FreshReturns(p) /\ NoOtherFetchRunning(p)
            => /\ dir'[PathOf(p)] # 0
               /\ ino'[dir'[PathOf(p)]].data = upOut[p].resp.body]_vars

\* the first value of a header, the empty string when there is none
FirstValue(h) == IF h = <<>> THEN <<>> ELSE h[1]

\* the request of p's validating fetch is, or has been, in the transport's
\* hands
HandedToTransport(p) == IsCache(p) /\ (pc[p] = "call" \/ calls[p] > 0)

\* the header the core derives from the modification time os.Stat gave
DerivedHeader(p) == << <<cache[p].mtime \div TicksPerSecond>> >>

\* C5, as claimed: the upstream request carries the header derived from
\* the entry's modification time when an entry was found and the caller
\* set no such header; a caller-set header is passed through unchanged;
\* with no entry found the core adds none.
C5_Original ==
    \A p \in Procs : HandedToTransport(p) =>
        /\ cache[p].has /\ req[p].Header = <<>>
            => upReq[p].Header = DerivedHeader(p)
        /\ req[p].Header # <<>> => upReq[p].Header = req[p].Header
        /\ ~cache[p].has => upReq[p].Header = req[p].Header

\* C5, amended: a header the caller set to the empty string counts as not
\* set: with an entry found it is replaced by the derived header; a
\* caller-set header with a non-empty value is passed through unchanged.
C5_ConditionalHeader ==
    \A p \in Procs : HandedToTransport(p) =>
        /\ cache[p].has /\ FirstValue(req[p].Header) = <<>>
            => upReq[p].Header = DerivedHeader(p)
        /\ FirstValue(req[p].Header) # <<>> => upReq[p].Header = req[p].Header
        /\ ~cache[p].has => upReq[p].Header = req[p].Header

\* a validating fetch that found an entry has sent the derived header, and
\* another has passed the caller's header through
C5_Witness ==
    \E p, q \in Procs :
        /\ HandedToTransport(p) /\ cache[p].has /\ req[p].Header = <<>>
        /\ upReq[p].Header = DerivedHeader(p)
        /\ HandedToTransport(q) /\ cache[q].has
        /\ req[q].Header = HeaderCallerDate
        /\ upReq[q].Header = HeaderCallerDate

\* p's validating fetch has returned after the transport answered
AnsweredAndDone(p) == IsCache(p) /\ pc[p] = "done" /\ calls[p] = 1

\* C6: a 304 from the transport with an entry found gives status 200, the
\* cache-hit marker, the cached bytes that were read and no error.
C6_NotModifiedServesCache ==
    \A p \in Procs :
        /\ AnsweredAndDone(p) /\ upOut[p].err = Nil
        /\ upOut[p].resp.status = 304 /\ cache[p].has
        => res[p] = [resp |-> HitResponse(cache[p].body), err |-> Nil]

\* a 304 has been answered from the cache with bytes that differ from the
\* upstream body
C6_Witness ==
    \E p \in Procs :
        /\ AnsweredAndDone(p) /\ upOut[p].err = Nil
        /\ upOut[p].resp.status = 304 /\ cache[p].has
        /\ res[p].resp.body = cache[p].body
        /\ res[p].resp.body # upOut[p].resp.body

\* C7: a transport error with an entry found returns the cached content
\* and no error; with no entry found it returns the transport error and no
\* response.
C7_TransportErrorFallsBack ==
    \A p \in Procs :
        AnsweredAndDone(p) /\ upOut[p].err # Nil
        => IF cache[p].has
           THEN res[p] = [resp |-> HitResponse(cache[p].body), err |-> Nil]
           ELSE res[p] = [resp |-> NilResp, err |-> upOut[p].err]

\* one fetch has fallen back to its entry on a transport error and another
\* has returned the transport error
C7_Witness ==
    \E p, q \in Procs :
        /\ AnsweredAndDone(p) /\ upOut[p].err # Nil /\ cache[p].has
        /\ res[p].resp.hit
        /\ AnsweredAndDone(q) /\ upOut[q].err # Nil /\ ~cache[q].has
        /\ res[q].err = upOut[q].err

\* the transport answered p with a status that is neither 2xx nor a 304
\* matched by an entry
OtherStatus(p) ==
    /\ upOut[p].err = Nil
    /\ ~(upOut[p].resp.status >= 200 /\ upOut[p].resp.status < 300)
    /\ ~(upOut[p].resp.status = 304 /\ cache[p].has)

\* C8: such a status with an entry found returns the synthesized cached
\* response (status 200, cached body); with no entry found it returns the
\* upstream response unmodified.
C8_OtherStatusFallsBack ==
    \A p \in Procs :
        AnsweredAndDone(p) /\ OtherStatus(p)
        => IF cache[p].has
           THEN res[p] = [resp |-> HitResponse(cache[p].body), err |-> Nil]
           ELSE res[p] = [resp |-> upOut[p].resp, err |-> Nil]

\* a 500 has been answered from the cache, and a 304 with no entry has
\* been returned as it came
C8_Witness ==
    \E p, q \in Procs :
        /\ AnsweredAndDone(p) /\ OtherStatus(p) /\ cache[p].has
        /\ upOut[p].resp.status = 500 /\ res[p].resp.status = 200
        /\ AnsweredAndDone(q) /\ OtherStatus(q) /\ ~cache[q].has
        /\ res[q].resp.status = 304

\* C9: a request of any other scheme makes exactly one transport call with
\* the original request, returns the transport's result as it is, and
\* neither reads nor writes the cache storage.
C9_PassThrough ==
    \A p \in Procs : IsOther(p) =>
        /\ pc[p] \in {"call", "done"}
        /\ io[p] = NoIO
        /\ upReq[p] = req[p]
        /\ pc[p] = "call" => calls[p] = 0
        /\ pc[p] = "done" =>
            /\ calls[p] = 1
            /\ res[p] = [resp |-> upOut[p].resp, err |-> upOut[p].err]

\* a pass-through request has returned the transport's response while the
\* cache holds an entry
C9_Witness ==
    \E p \in Procs :
        /\ IsOther(p) /\ pc[p] = "done" /\ res[p].err = Nil
        /\ res[p].resp.body \in Bodies
        /\ \E path \in CachePaths : dir[path] # 0

\* the cache-miss error that names destination u
MissError(u) == <<"cache miss for", u.Scheme>> \o u.Rest

\* C10: a cache-only fetch whose destination has no entry fails; when the
\* storage reports the entry as not found it fails with the cache-miss
\* error naming the destination, and it returns no response.  No step of a
\* cache-only fetch changes the cache, and an entry comes into being only
\* by the rename of a validating fetch, so a repeated cache-only fetch
\* keeps failing until a validating fetch stores an entry.
C10_CacheOnlyMiss ==
    [][/\ \A p \in Procs :
            IsCachez(p) /\ pc[p] = "stat" /\ dir[PathOf(p)] = 0
            /\ pc'[p] # pc[p]
            => /\ pc'[p] = "done"
               /\ res'[p].resp = NilResp
               /\ res'[p].err # Nil
               /\ cache'[p].err = ErrNotExist => res'[p].err = MissError(down[p])
       /\ \A p \in Procs :
            IsCachez(p) /\ Active(p) /\ pc'[p] # pc[p]
            => dir' = dir /\ ino' = ino
       /\ \A path \in CachePaths :
            dir[path] = 0 /\ dir'[path] # 0
            => \E q \in Procs :
                /\ IsCache(q) /\ pc[q] = "rename" /\ pc'[q] = "done"
                /\ PathOf(q) = path]_vars

\* a cache-only fetch has failed with the cache-miss error after another
\* request, and its destination still has no entry
C10_Witness ==
    \E p \in Procs :
        /\ IsCachez(p) /\ pc[p] = "done" /\ down[p] # NoURL
        /\ res[p] = [resp |-> NilResp, err |-> MissError(down[p])]
        /\ dir[PathOf(p)] = 0
        /\ started >= 2

\* p's validating fetch has returned after writeCacheFile failed
WriteFailed(p) == IsCache(p) /\ pc[p] = "done" /\ werr[p] = "err"

\* C11: when writing the cache fails after a validating fetch received a
\* 2xx response and buffered its body, the fetch returns no error and a
\* response that carries the upstream status, the buffered body and a
\* content-length equal to the size of that body.
C11_WriteFailureSwallowed ==
    \A p \in Procs : WriteFailed(p) =>
        /\ res[p].err = Nil
        /\ ~res[p].resp.nil /\ ~res[p].resp.hit
        /\ res[p].resp.status = upOut[p].resp.status
        /\ res[p].resp.body = upOut[p].resp.body
        /\ res[p].resp.len = Len(upOut[p].resp.body)

\* a fetch whose cache write failed has returned the fresh two-byte body,
\* and its destination has no entry
C11_Witness ==
    \E p \in Procs :
        /\ WriteFailed(p) /\ res[p].err = Nil
        /\ res[p].resp.body = <<2, 2>> /\ res[p].resp.len = 2
        /\ dir[PathOf(p)] = 0

\* readCacheFile returned to p an error other than not-found
StorageReadFailed(p) == cache[p].err = <<"storage error">>

\* C12: a storage read error other than not-found ends the request, in a
\* validating and in a cache-only fetch alike: the fetch goes nowhere but
\* to its return, it returns that error and no response, and it has made
\* no transport call and no cache write.
C12_StorageErrorIsFatal ==
    \A p \in Procs : StorageReadFailed(p) =>
        /\ IsCache(p) \/ IsCachez(p)
        /\ pc[p] = "done"
        /\ res[p] = [resp |-> NilResp, err |-> cache[p].err]
        /\ calls[p] = 0
        /\ io[p].writes = 0

\* a validating fetch and a cache-only fetch have both returned the storage
\* error, the one of os.ReadFile with an entry present among them
C12_Witness ==
    \E p, q \in Procs :
        /\ IsCache(p) /\ StorageReadFailed(p) /\ pc[p] = "done"
        /\ IsCachez(q) /\ StorageReadFailed(q) /\ pc[q] = "done"
        /\ io[q].reads = 2 /\ dir[PathOf(q)] # 0

\* the remainder of wrapped URL u is empty, or does not begin with a
\* scheme of its own (an unparseable remainder included)
NotAbsolute(u) == u.Rest = <<>> \/ u.Rest[1] \notin SchemeNames

\* the error unwrapScheme gives for such a remainder
UnwrapError(u) ==
    IF u.Rest = <<>> THEN <<"missing downstream URL after prefix">>
    ELSE IF u.Rest[1] = "%zz" THEN <<"parse downstream URL">>
    ELSE <<"downstream URL must include scheme">>

TransportGaveOne(p) == calls[p] = 0 \/ (upOut[p].resp.nil # (upOut[p].err = <<>>))

\* p's validating or cache-only request has returned
WrappedDone(p) == (IsCache(p) \/ IsCachez(p)) /\ pc[p] = "done"

\* C14: every request handled in validating or cache-only mode ends with
\* exactly one of a response and an error: the response is nil exactly
\* when the error is not.
C14_ResponseXorError ==
    \A p \in Procs : WrappedDone(p) /\ TransportGaveOne(p) =>
        /\ res[p].resp.nil = (res[p].err # <<>>)
        /\ res[p].resp.nil => res[p].resp = NilResp

\* a validating fetch has ended with the transport's error, and a
\* cache-only fetch with a response
C14_Witness ==
    \E p, q \in Procs :
        /\ WrappedDone(p) /\ IsCache(p) /\ calls[p] = 1
        /\ res[p].resp.nil /\ res[p].err = <<"transport error">>
        /\ WrappedDone(q) /\ IsCachez(q)
        /\ ~res[q].resp.nil /\ res[q].err = <<>>

\* C15: the core never deletes a cache entry: a destination that has an
\* entry has one after every step, whichever request takes it.
C15_EntriesNeverDeleted ==
    [][\A path \in CachePaths : dir[path] # 0 => dir'[path] # 0]_vars

\* an entry is there after a fetch of another body for its destination
\* has returned with its cache write failed
C15_Witness ==
    \E p \in Procs :
        /\ IsCache(p) /\ pc[p] = "done" /\ werr[p] = "err"
        /\ dir[PathOf(p)] # 0
        /\ ino[dir[PathOf(p)]].data # upOut[p].resp.body
        /\ Cardinality(written[PathOf(p)]) = 2

\* the transport answered p with a 2xx status and reading the body failed
BodyReadFailed(p) ==
    /\ IsCache(p) /\ calls[p] = 1 /\ upOut[p].err = <<>>
    /\ upOut[p].resp.status >= 200 /\ upOut[p].resp.status < 300
    /\ upOut[p].readErr

\* C16: a validating fetch whose 2xx body cannot be read returns at once:
\* the cached response and no error when an entry was found, else the read
\* error and no response; it writes nothing to the cache, so that a body
\* no other fetch wrote for the destination is not in the destination's
\* files.
C16_BodyReadFailure ==
    \A p \in Procs : BodyReadFailed(p) =>
        /\ pc[p] = "done"
        /\ IF cache[p].has
           THEN res[p] = [resp |-> HitResponse(cache[p].body), err |-> <<>>]
           ELSE res[p] = [resp |-> NilResp, err |-> <<"body read error">>]
        /\ io[p].writes = 0 /\ werr[p] = "none"
        /\ upOut[p].resp.body \notin written[PathOf(p)]
            => \A path \in {PathOf(p), tmpPathOf(PathOf(p))} :
                dir[path] # 0 => ino[dir[path]].data # upOut[p].resp.body

\* one fetch has fallen back to its entry on a body-read failure, the body
\* that failed differing from the entry, and another has returned the read
\* error
C16_Witness ==
    \E p, q \in Procs :
        /\ BodyReadFailed(p) /\ cache[p].has /\ res[p].resp.hit
        /\ res[p].resp.body # upOut[p].resp.body
        /\ ino[dir[PathOf(p)]].data = cache[p].body
        /\ BodyReadFailed(q) /\ ~cache[q].has
        /\ res[q].err = <<"body read error">>

\* p's validating fetch returns a response served from the cache in this
\* step
ServesFromCache(p) ==
    /\ IsCache(p) /\ pc[p] = "call" /\ pc'[p] = "done"
    /\ res'[p].err = <<>> /\ res'[p].resp.hit

\* C17, as claimed: in a sequential run of validating fetches for one
\* destination in which cache writes succeed, a response served from the
\* cache (after a 304, a transport error, a body-read failure or a status
\* outside 2xx) carries the body of the latest earlier fetch that received
\* a 2xx response.
C17_Original ==
    [][\A p \in Procs :
        ServesFromCache(p) /\ recent[PathOf(p)].seq
            => res'[p].resp.body = recent[PathOf(p)].got]_vars

\* C17, amended: it carries the body of the latest earlier fetch that
\* received a 2xx response and buffered its body; a 2xx response whose
\* body could not be read leaves the entry as it was.
C17_ServesMostRecentBody ==
    [][\A p \in Procs :
        ServesFromCache(p) /\ recent[PathOf(p)].seq
            => /\ recent[PathOf(p)].has
               /\ res'[p].resp.body = recent[PathOf(p)].body]_vars

\* after two fetches that stored different bodies one after the other, a
\* third has been answered from the cache with the second body
C17_Witness ==
    \E p \in Procs :
        /\ IsCache(p) /\ pc[p] = "done" /\ calls[p] = 1
        /\ res[p].err = <<>> /\ res[p].resp.hit
        /\ recent[PathOf(p)].seq /\ recent[PathOf(p)].has
        /\ res[p].resp.body = recent[PathOf(p)].body
        /\ Cardinality(written[PathOf(p)]) = 2

\* what a path of the cache directory names: nothing, or content and
\* modification time
FileAt(path) ==
    IF dir[path] = 0 THEN [exists |-> FALSE, data |-> <<>>, mtime |-> 0]
    ELSE [exists |-> TRUE, data |-> ino[dir[path]].data,
          mtime |-> ino[dir[path]].mtime]

\* p takes a step of writeCacheFile for the destination stored at path,
\* in a validating fetch that received a 2xx status and buffered the body
StoresFresh(p, path) ==
    /\ IsCache(p) /\ pc[p] \in {"open", "write", "rename"} /\ pc'[p] # pc[p]
    /\ path \in {PathOf(p), PathOf(p) \o <<".tmp">>}
    /\ upOut[p].err = <<>> /\ ~upOut[p].readErr
    /\ upOut[p].resp.status >= 200 /\ upOut[p].resp.status < 300

\* C18: a file of the cache directory changes only in a step of
\* writeCacheFile taken by a validating fetch that received a 2xx status
\* and buffered the body; every other step of every request leaves all
\* entries as they are, and no entry ever holds the body of a response
\* with a status outside 2xx.
C18_OnlyFreshFetchWrites ==
    [][/\ \A path \in AllPaths :
            FileAt(path)' # FileAt(path) => \E p \in Procs : StoresFresh(p, path)
       /\ \A path \in CachePaths : FileAt(path)'.data # <<7>>]_vars

\* a fetch answered with status 500 has been served the entry, which is
\* as it was read, beside a cache-only fetch that has returned
C18_Witness ==
    \E p, q \in Procs :
        /\ IsCache(p) /\ pc[p] = "done" /\ calls[p] = 1
        /\ upOut[p].resp.status = 500 /\ cache[p].has
        /\ FileAt(PathOf(p)).exists
        /\ FileAt(PathOf(p)).data = cache[p].body
        /\ FileAt(PathOf(p)).mtime = cache[p].mtime
        /\ IsCachez(q) /\ pc[q] = "done"

\* no validating fetch for the destination stored at path is running
AllReturned(path) ==
    \A p \in Procs : ~(IsCache(p) /\ Active(p) /\ PathOf(p) = path)

\* C19: once the validating fetches for a destination that received a 2xx
\* response have all returned, the entry of the destination is the
\* complete body one of them fetched, never a mixture or a truncation.
C19_EntryIsOneWholeBody ==
    \A path \in CachePaths :
        AllReturned(path) /\ dir[path] # 0
            => ino[dir[path]].data \in written[path]

\* p's readCacheFile returns an entry in this step
ReadReturnsEntry(p) == pc[p] = "read" /\ cache'[p].has

\* C20: the body and the modification time that one cache read returns
\* belong to the same version of the entry: the bytes returned are those
\* of the file whose modification time os.Stat gave, so that the date of
\* the conditional header is the date of the entry served as fallback.
C20_ReadIsOneVersion ==
    [][\A p \in Procs : ReadReturnsEntry(p) =>
        /\ cache'[p].body = ino[dir[PathOf(p)]].data
        /\ cache'[p].mtime \div TicksPerSecond
            = ino[dir[PathOf(p)]].mtime \div TicksPerSecond]_vars

====
